---- MODULE Spec2Model ----
(***************************************************************************)
(* AnnotationFactory (src/image/annotationFactory.js): the translation     *)
(* between an AnnotationGroup and a DICOM SR element mapping, with the     *)
(* collaborators it calls (SR content reader/writer, element builder,      *)
(* shape codec, date codec, guid, logger, Annotation/AnnotationGroup).     *)
(*                                                                         *)
(* JavaScript values: an optional value is a sequence of length 0          *)
(* (undefined) or 1 (the value); an object is a function from its keys; an *)
(* array is a sequence.                                                    *)
(***************************************************************************)
EXTENDS Integers, Sequences, FiniteSets, TLC

\* ------------------------------------------------------------------ bounds
\* Most nodes (root children and their children) in an imported SR tree.
MaxNodes == 4
\* Most annotations in an exported group.
MaxAnnotations == 3
\* Most guid() calls in one behaviour.
MaxGuid == 4
\* Largest coordinate the shape codec prints and parses.
MaxCoord == 4
\* Most nodes below the root in an imported SR tree of any depth.
MaxDeepNodes == 3

\* ------------------------------------------------------- JavaScript values
Undefined == <<>>
Some(v) == <<v>>
IsDefined(o) == Len(o) > 0

\* {...a, ...b}: the keys of both, b's value where both have one.
Spread(a, b) == b @@ a

\* ------------------------------------------------------------ enumerations
ValueTypes ==
  [text |-> "TEXT", container |-> "CONTAINER", uidref |-> "UIDREF",
   image |-> "IMAGE", scoord |-> "SCOORD"]

RelationshipTypes ==
  [contains |-> "CONTAINS", hasProperties |-> "HAS PROPERTIES",
   selectedFrom |-> "SELECTED FROM"]

\* ------------------------------------------------------------ concept codes
DicomCode(meaning, value, schemeDesignator) ==
  [meaning |-> meaning, value |-> value, schemeDesignator |-> schemeDesignator]

getMeasurementGroupCode == DicomCode("Measurement Group", "125007", "DCM")
getImageRegionCode == DicomCode("Image Region", "111030", "DCM")
getSourceImageCode == DicomCode("Source Image", "260753009", "SCT")
getTrackingIdentifierCode == DicomCode("Tracking Identifier", "112039", "DCM")
getShortLabelCode == DicomCode("Short label", "125309", "DCM")

\* ------------------------------------------------------------ tag dictionary
\* name, key (group+element) and VR of the tags the factory reads or writes.
Dictionary ==
  [MediaStorageSOPClassUID |-> [key |-> "00020002", vr |-> "UI"],
   MediaStorageSOPInstanceUID |-> [key |-> "00020003", vr |-> "UI"],
   TransferSyntaxUID |-> [key |-> "00020010", vr |-> "UI"],
   SOPClassUID |-> [key |-> "00080016", vr |-> "UI"],
   SOPInstanceUID |-> [key |-> "00080018", vr |-> "UI"],
   ContentDate |-> [key |-> "00080023", vr |-> "DA"],
   ContentTime |-> [key |-> "00080033", vr |-> "TM"],
   Modality |-> [key |-> "00080060", vr |-> "CS"],
   CodeValue |-> [key |-> "00080100", vr |-> "SH"],
   CodingSchemeDesignator |-> [key |-> "00080102", vr |-> "SH"],
   CodeMeaning |-> [key |-> "00080104", vr |-> "LO"],
   ReferencedSeriesSequence |-> [key |-> "00081115", vr |-> "SQ"],
   ReferencedSOPClassUID |-> [key |-> "00081150", vr |-> "UI"],
   ReferencedSOPInstanceUID |-> [key |-> "00081155", vr |-> "UI"],
   ReferencedSOPSequence |-> [key |-> "00081199", vr |-> "SQ"],
   PatientName |-> [key |-> "00100010", vr |-> "PN"],
   StudyInstanceUID |-> [key |-> "0020000D", vr |-> "UI"],
   SeriesInstanceUID |-> [key |-> "0020000E", vr |-> "UI"],
   RelationshipType |-> [key |-> "0040A010", vr |-> "CS"],
   ValueType |-> [key |-> "0040A040", vr |-> "CS"],
   ConceptNameCodeSequence |-> [key |-> "0040A043", vr |-> "SQ"],
   UID |-> [key |-> "0040A124", vr |-> "UI"],
   TextValue |-> [key |-> "0040A160", vr |-> "UT"],
   CompletionFlag |-> [key |-> "0040A491", vr |-> "CS"],
   VerificationFlag |-> [key |-> "0040A493", vr |-> "CS"],
   ContentSequence |-> [key |-> "0040A730", vr |-> "SQ"],
   PixelOriginInterpretation |-> [key |-> "00480301", vr |-> "CS"],
   GraphicData |-> [key |-> "00700022", vr |-> "FL"],
   GraphicType |-> [key |-> "00700023", vr |-> "CS"]]

DictionaryNames == DOMAIN Dictionary
getTagFromDictionary(name) == Dictionary[name]
K(name) == Dictionary[name].key

\* The keys of the SR content tree's root item.
ContentTreeNames ==
  {"ValueType", "RelationshipType", "ConceptNameCodeSequence",
   "ContentSequence", "TextValue", "UID", "ReferencedSOPSequence",
   "GraphicType", "GraphicData", "PixelOriginInterpretation"}

\* ------------------------------------------------------------ element builder
\* getElementsFromJSONTags: a flat name -> value mapping to a key -> element
\* mapping. A name the dictionary lacks and a tag with no content are skipped,
\* a sequence tag ({value: [items]}) is converted item by item, any other
\* value becomes the element's value array.
RECURSIVE getElementsFromJSONTags(_)
getElementsFromJSONTags(jsonTags) ==
  LET names == {n \in DOMAIN jsonTags :
                  n \in DictionaryNames /\ IsDefined(jsonTags[n])}
      element(n) ==
        LET tag == getTagFromDictionary(n)
            jsonTag == jsonTags[n][1]
        IN IF tag.vr = "SQ"
           THEN [vr |-> "SQ",
                 value |-> [i \in 1..Len(jsonTag.value) |->
                              getElementsFromJSONTags(jsonTag.value[i])]]
           ELSE [vr |-> tag.vr,
                 value |-> IF n = "GraphicData" THEN jsonTag ELSE <<jsonTag>>]
  IN [k \in {K(n) : n \in names} |-> element(CHOOSE n \in names : K(n) = k)]

\* dataElements[key].value[0], undefined when the element is absent or empty.
FirstValue(dataElements, name) ==
  IF K(name) \in DOMAIN dataElements /\ Len(dataElements[K(name)].value) > 0
  THEN Some(dataElements[K(name)].value[1])
  ELSE Undefined

\* ------------------------------------------------------------ shape codec
\* Number.toString and parseFloat on the coordinates in range.
NumToString(n) == ToString(n)
parseFloat(s) == CHOOSE n \in 0..MaxCoord : ToString(n) = s

Point2D(x, y) == [type |-> "Point2D", x |-> x, y |-> y]
Circle(center, radius) == [type |-> "Circle", center |-> center, radius |-> radius]

\* getScoordFromShape: a point is its two coordinates, a circle its centre
\* and a point of the perimeter.
getScoordFromShape(shape) ==
  IF shape.type = "Point2D"
  THEN [graphicType |-> "POINT",
        graphicData |-> <<NumToString(shape.x), NumToString(shape.y)>>]
  ELSE [graphicType |-> "CIRCLE",
        graphicData |-> <<NumToString(shape.center.x),
                          NumToString(shape.center.y),
                          NumToString(shape.center.x + shape.radius),
                          NumToString(shape.center.y)>>]

getShapeFromScoord(scoord) ==
  LET p(i) == parseFloat(scoord.graphicData[i])
  IN IF scoord.graphicType = "POINT"
     THEN Point2D(p(1), p(2))
     ELSE Circle(Point2D(p(1), p(2)), p(3) - p(1))

\* ------------------------------------------------------------ SR content
\* new DicomSRContent(valueType)
DicomSRContent(valueType) ==
  [valueType |-> valueType, relationshipType |-> Undefined,
   conceptNameCode |-> Undefined, value |-> Undefined,
   contentSequence |-> <<>>]

\* new SopInstanceReference(), new ImageReference()
SopInstanceReference ==
  [referencedSOPClassUID |-> Undefined, referencedSOPInstanceUID |-> Undefined]
ImageReference == [referencedSOPSequence |-> Undefined]

getDicomCodeItem(code) ==
  [CodeValue |-> Some(code.value),
   CodingSchemeDesignator |-> Some(code.schemeDesignator),
   CodeMeaning |-> Some(code.meaning)]

getCode(dataElements) ==
  DicomCode(FirstValue(dataElements, "CodeMeaning")[1],
            FirstValue(dataElements, "CodeValue")[1],
            FirstValue(dataElements, "CodingSchemeDesignator")[1])

getDicomSpatialCoordinateItem(scoord) ==
  [GraphicType |-> Some(scoord.graphicType),
   GraphicData |-> Some(scoord.graphicData)]

getSpatialCoordinate(dataElements) ==
  [graphicType |-> FirstValue(dataElements, "GraphicType")[1],
   graphicData |-> dataElements[K("GraphicData")].value]

getDicomImageReferenceItem(ref) ==
  [ReferencedSOPSequence |->
     Some([value |->
       <<[ReferencedSOPClassUID |-> ref.referencedSOPSequence[1].referencedSOPClassUID,
          ReferencedSOPInstanceUID |-> ref.referencedSOPSequence[1].referencedSOPInstanceUID]>>])]

getImageReference(dataElements) ==
  LET item == dataElements[K("ReferencedSOPSequence")].value[1]
  IN [referencedSOPSequence |->
        Some([referencedSOPClassUID |-> FirstValue(item, "ReferencedSOPClassUID"),
              referencedSOPInstanceUID |-> FirstValue(item, "ReferencedSOPInstanceUID")])]

\* getDicomSRContentItem: an SR content tree to its flat tags, children
\* under ContentSequence (omitted when there are none).
RECURSIVE getDicomSRContentItem(_)
getDicomSRContentItem(content) ==
  LET type == "ValueType" :> Some(content.valueType)
      relation ==
        IF IsDefined(content.relationshipType)
        THEN "RelationshipType" :> content.relationshipType ELSE <<>>
      concept ==
        IF IsDefined(content.conceptNameCode)
        THEN "ConceptNameCodeSequence" :>
               Some([value |-> <<getDicomCodeItem(content.conceptNameCode[1])>>])
        ELSE <<>>
      value ==
        CASE content.valueType = ValueTypes.text -> "TextValue" :> content.value
          [] content.valueType = ValueTypes.uidref -> "UID" :> content.value
          [] content.valueType = ValueTypes.scoord ->
               getDicomSpatialCoordinateItem(content.value[1])
          [] content.valueType = ValueTypes.image ->
               getDicomImageReferenceItem(content.value[1])
          [] OTHER -> <<>>
      children ==
        IF Len(content.contentSequence) # 0
        THEN "ContentSequence" :>
               Some([value |-> [i \in 1..Len(content.contentSequence) |->
                                  getDicomSRContentItem(content.contentSequence[i])]])
        ELSE <<>>
  IN Spread(Spread(Spread(Spread(type, relation), concept), value), children)

\* getSRContent: the SR content tree of an element mapping; a field whose
\* element is absent stays undefined, contentSequence stays empty.
RECURSIVE getSRContent(_)
getSRContent(dataElements) ==
  LET has(name) == K(name) \in DOMAIN dataElements
      valueType ==
        IF has("ValueType") THEN FirstValue(dataElements, "ValueType")[1] ELSE ""
      value ==
        CASE valueType = ValueTypes.text -> FirstValue(dataElements, "TextValue")
          [] valueType = ValueTypes.uidref -> FirstValue(dataElements, "UID")
          [] valueType = ValueTypes.scoord /\ has("GraphicType") ->
               Some(getSpatialCoordinate(dataElements))
          [] valueType = ValueTypes.image /\ has("ReferencedSOPSequence") ->
               Some(getImageReference(dataElements))
          [] OTHER -> Undefined
  IN [valueType |-> valueType,
      relationshipType |-> FirstValue(dataElements, "RelationshipType"),
      conceptNameCode |->
        IF has("ConceptNameCodeSequence")
        THEN Some(getCode(dataElements[K("ConceptNameCodeSequence")].value[1]))
        ELSE Undefined,
      value |-> value,
      contentSequence |->
        IF has("ContentSequence")
        THEN [i \in 1..Len(dataElements[K("ContentSequence")].value) |->
                getSRContent(dataElements[K("ContentSequence")].value[i])]
        ELSE <<>>]

\* ------------------------------------------------------------ date codec
\* A two-digit (or four-digit) field of a DICOM date or time.
Pad2(n) == IF n < 10 THEN "0" \o ToString(n) ELSE ToString(n)
Pad4(n) == IF n < 1000 THEN "0" \o ToString(n) ELSE ToString(n)

\* dateToDateObj / dateToTimeObj: Date.getMonth() counts from 0.
dateToDateObj(date) ==
  [year |-> date.fullYear, month |-> date.month + 1, day |-> date.date]
dateToTimeObj(date) ==
  [hours |-> date.hours, minutes |-> date.minutes, seconds |-> date.seconds]
getDicomDate(dateObj) ==
  Pad4(dateObj.year) \o Pad2(dateObj.month) \o Pad2(dateObj.day)
getDicomTime(timeObj) ==
  Pad2(timeObj.hours) \o Pad2(timeObj.minutes) \o Pad2(timeObj.seconds)

\* ------------------------------------------------------------ guid
\* The identifier the n-th guid() call of a behaviour returns.
guid(n) == "guid-" \o ToString(n)

\* ------------------------------------------------------------ annotations
\* new Annotation(): every field unset.
Annotation ==
  [id |-> Undefined, mathShape |-> Undefined, textExpr |-> Undefined,
   referenceSopUID |-> Undefined]

\* new AnnotationGroup(list): the list and an empty meta table.
AnnotationGroup(list) == [list |-> list, meta |-> <<>>]
setMeta(group, key, value) == [group EXCEPT !.meta = (key :> value) @@ @]
getMeta(group, key) ==
  IF key \in DOMAIN group.meta THEN group.meta[key] ELSE Undefined
getList(group) == group.list

\* ------------------------------------------------------------ the factory
VARIABLES
  warning,          \* AnnotationFactory.#warning
  guidCount,        \* guid() calls made so far
  op,               \* the method that returned last ("new" before any call)
  dataElements,     \* argument of the last checkElements or create call
  annotationGroup,  \* argument of the last toDicom call
  extraTags,        \* argument of the last toDicom call
  tags,             \* the tag set the last toDicom call handed to the element builder
  trace,            \* logger.trace entries of the last call
  result,           \* what the last call returned
  warningBefore,    \* history: #warning when the last call began
  lastChecked       \* history: what the last checkElements call returned

vars ==
  <<warning, guidCount, op, dataElements, annotationGroup, extraTags, tags,
    trace, result, warningBefore, lastChecked>>

\* mergeTags: tags2 (its entries in Object.keys order) written over tags1,
\* with one trace entry per key whose value in tags1 is not undefined.
RECURSIVE mergeTagsLoop(_, _, _, _)
mergeTagsLoop(tags1, tags2, i, log) ==
  IF i > Len(tags2)
  THEN [tags |-> tags1, trace |-> log]
  ELSE LET tagName2 == tags2[i].name
           defined == tagName2 \in DOMAIN tags1 /\ IsDefined(tags1[tagName2])
       IN mergeTagsLoop(Spread(tags1, tagName2 :> tags2[i].value), tags2, i + 1,
                        IF defined
                        THEN Append(log, "Overwritting tag: " \o tagName2)
                        ELSE log)

\* mergeTags with the trace entry decided by the key being in tags1.
RECURSIVE mergeTagsByKeyLoop(_, _, _, _)
mergeTagsByKeyLoop(tags1, tags2, i, log) ==
  IF i > Len(tags2)
  THEN [tags |-> tags1, trace |-> log]
  ELSE LET tagName2 == tags2[i].name
       IN mergeTagsByKeyLoop(Spread(tags1, tagName2 :> tags2[i].value), tags2,
                             i + 1,
                             IF tagName2 \in DOMAIN tags1
                             THEN Append(log, "Overwritting tag: " \o tagName2)
                             ELSE log)

mergeTagsByKey(tags1, tags2) == mergeTagsByKeyLoop(tags1, tags2, 1, <<>>)

mergeTags(tags1, tags2) == mergeTagsLoop(tags1, tags2, 1, <<>>)

\* checkElements with the comparison of the code values inverted.
checkElementsWarningInverted(current, elements) ==
  LET srContent == getSRContent(elements)
  IN IF IsDefined(srContent.conceptNameCode)
     THEN IF srContent.conceptNameCode[1].value = getMeasurementGroupCode.value
          THEN Some("Not a measurement group")
          ELSE Undefined
     ELSE Some("No root concept name code")

\* checkElements without the reset: a measurement group leaves the stored
\* warning as it was.
checkElementsWarningNoReset(current, elements) ==
  LET srContent == getSRContent(elements)
  IN IF IsDefined(srContent.conceptNameCode)
     THEN IF srContent.conceptNameCode[1].value # getMeasurementGroupCode.value
          THEN Some("Not a measurement group")
          ELSE current
     ELSE Some("No root concept name code")

\* checkElements: the warning it stores and returns; current is the stored
\* warning at the call, which the reset discards.
checkElementsWarning(current, elements) ==
  LET reset == Undefined
      srContent == getSRContent(elements)
  IN IF IsDefined(srContent.conceptNameCode)
     THEN IF srContent.conceptNameCode[1].value # getMeasurementGroupCode.value
          THEN Some("Not a measurement group")
          ELSE reset
     ELSE Some("No root concept name code")

\* The inner loop of create: each direct child of a scoord item, in order,
\* overwrites the field its (valueType, relationshipType) pair names.
scanSubItem(annotation, subItem) ==
  LET a1 == IF /\ subItem.valueType = ValueTypes.image
               /\ subItem.relationshipType = Some(RelationshipTypes.selectedFrom)
            THEN [annotation EXCEPT !.referenceSopUID =
                    subItem.value[1].referencedSOPSequence[1].referencedSOPInstanceUID]
            ELSE annotation
      a2 == IF /\ subItem.valueType = ValueTypes.uidref
               /\ subItem.relationshipType = Some(RelationshipTypes.hasProperties)
            THEN [a1 EXCEPT !.id = subItem.value]
            ELSE a1
  IN IF /\ subItem.valueType = ValueTypes.text
        /\ subItem.relationshipType = Some(RelationshipTypes.hasProperties)
     THEN [a2 EXCEPT !.textExpr = subItem.value]
     ELSE a2

\* The inner loop with a field kept once it is set: the first match wins.
RECURSIVE scanSubItemsFirstWins(_, _, _)
scanSubItemsFirstWins(annotation, contentSequence, j) ==
  IF j > Len(contentSequence)
  THEN annotation
  ELSE scanSubItem(scanSubItemsFirstWins(annotation, contentSequence, j + 1),
                   contentSequence[j])

\* The inner loop descending into the children of each child.
RECURSIVE scanSubItemsDeep(_, _, _)
scanSubItemsDeep(annotation, contentSequence, j) ==
  IF j > Len(contentSequence)
  THEN annotation
  ELSE scanSubItemsDeep(
         scanSubItemsDeep(scanSubItem(annotation, contentSequence[j]),
                          contentSequence[j].contentSequence, 1),
         contentSequence, j + 1)

RECURSIVE scanSubItems(_, _, _)
scanSubItems(annotation, contentSequence, j) ==
  IF j > Len(contentSequence)
  THEN annotation
  ELSE scanSubItems(scanSubItem(annotation, contentSequence[j]),
                    contentSequence, j + 1)

\* The annotation of one scoord item; id is the value guid() returned.
annotationFromScoord(item, id) ==
  scanSubItems([Annotation EXCEPT
                  !.mathShape = Some(getShapeFromScoord(item.value[1])),
                  !.id = Some(id),
                  !.textExpr = Some("")],
               item.contentSequence, 1)

\* The outer loop with guid() called once, before the loop.
RECURSIVE createAnnotationsOneGuid(_, _, _, _)
createAnnotationsOneGuid(contentSequence, i, annotations, guids) ==
  IF i > Len(contentSequence)
  THEN [annotations |-> annotations,
        guids |-> IF Len(contentSequence) > 0 THEN guids + 1 ELSE guids]
  ELSE IF contentSequence[i].valueType = ValueTypes.scoord
       THEN createAnnotationsOneGuid(
              contentSequence, i + 1,
              Append(annotations,
                     annotationFromScoord(contentSequence[i], guid(guids + 1))),
              guids)
       ELSE createAnnotationsOneGuid(contentSequence, i + 1, annotations, guids)

\* The outer loop of create over the root's children, from the i-th on:
\* the annotations and the number of guid() calls made.
RECURSIVE createAnnotations(_, _, _, _)
createAnnotations(contentSequence, i, annotations, guids) ==
  IF i > Len(contentSequence)
  THEN [annotations |-> annotations, guids |-> guids]
  ELSE IF contentSequence[i].valueType = ValueTypes.scoord
       THEN createAnnotations(
              contentSequence, i + 1,
              Append(annotations,
                     annotationFromScoord(contentSequence[i], guid(guids + 1))),
              guids + 1)
       ELSE createAnnotations(contentSequence, i + 1, annotations, guids)

\* The metadata part of create with absent elements read as undefined.
createMetaLenient(group, elements) ==
  LET element == K("ReferencedSeriesSequence")
      g1 == setMeta(group, "Modality", FirstValue(elements, "Modality"))
      g2 == IF /\ element \in DOMAIN elements
               /\ Len(elements[element].value) > 0
               /\ K("SeriesInstanceUID") \in DOMAIN elements[element].value[1]
            THEN setMeta(g1, "ReferencedSeriesSequence",
                   Some([value |-> <<[SeriesInstanceUID |->
                      FirstValue(elements[element].value[1], "SeriesInstanceUID")]>>]))
            ELSE g1
  IN [status |-> "ok",
      group |-> setMeta(g2, "StudyInstanceUID",
                        FirstValue(elements, "StudyInstanceUID"))]

\* The metadata part of create: reading .value of an absent element (or an
\* item of an empty sequence) raises.
createMeta(group, elements) ==
  LET element == K("ReferencedSeriesSequence")
      raises ==
        \/ K("Modality") \notin DOMAIN elements
        \/ /\ element \in DOMAIN elements
           /\ Len(elements[element].value) = 0
        \/ K("StudyInstanceUID") \notin DOMAIN elements
      g1 == setMeta(group, "Modality", FirstValue(elements, "Modality"))
      g2 == IF /\ element \in DOMAIN elements
               /\ K("SeriesInstanceUID") \in DOMAIN elements[element].value[1]
            THEN setMeta(g1, "ReferencedSeriesSequence",
                   Some([value |-> <<[SeriesInstanceUID |->
                      FirstValue(elements[element].value[1], "SeriesInstanceUID")]>>]))
            ELSE g1
  IN IF raises
     THEN [status |-> "error"]
     ELSE [status |-> "ok",
           group |-> setMeta(g2, "StudyInstanceUID",
                             FirstValue(elements, "StudyInstanceUID"))]

\* create, with guids guid() calls made before it: what it returns (or that
\* it raised) and the guid() calls made after it.
create(elements, guids) ==
  LET srContent == getSRContent(elements)
      loop == createAnnotations(srContent.contentSequence, 1, <<>>, guids)
  IN [return |-> createMeta(AnnotationGroup(loop.annotations), elements),
      guids |-> loop.guids]

\* The image child of a scoord node: the referenced SOP instance.
srImageFromAnnotation(annotation) ==
  LET sopRef == [SopInstanceReference EXCEPT
                   !.referencedSOPClassUID = Some(""),
                   !.referencedSOPInstanceUID = annotation.referenceSopUID]
  IN [DicomSRContent(ValueTypes.image) EXCEPT
        !.relationshipType = Some(RelationshipTypes.selectedFrom),
        !.conceptNameCode = Some(getSourceImageCode),
        !.value = Some([ImageReference EXCEPT
                          !.referencedSOPSequence = Some(sopRef)])]

\* The uidref child written with the annotation's text instead of its id.
srUidFromAnnotationText(annotation) ==
  [DicomSRContent(ValueTypes.uidref) EXCEPT
     !.relationshipType = Some(RelationshipTypes.hasProperties),
     !.conceptNameCode = Some(getTrackingIdentifierCode),
     !.value = annotation.textExpr]

\* The uidref child of a scoord node: the annotation's id.
srUidFromAnnotation(annotation) ==
  [DicomSRContent(ValueTypes.uidref) EXCEPT
     !.relationshipType = Some(RelationshipTypes.hasProperties),
     !.conceptNameCode = Some(getTrackingIdentifierCode),
     !.value = annotation.id]

\* The text child of a scoord node: the annotation's text.
shortLabelFromAnnotation(annotation) ==
  [DicomSRContent(ValueTypes.text) EXCEPT
     !.relationshipType = Some(RelationshipTypes.hasProperties),
     !.conceptNameCode = Some(getShortLabelCode),
     !.value = annotation.textExpr]

\* The scoord node toDicom builds for one annotation.
scoordFromAnnotation(annotation) ==
  [DicomSRContent(ValueTypes.scoord) EXCEPT
     !.relationshipType = Some(RelationshipTypes.contains),
     !.conceptNameCode = Some(getImageRegionCode),
     !.value = Some(getScoordFromShape(annotation.mathShape[1])),
     !.contentSequence = <<srImageFromAnnotation(annotation),
                           srUidFromAnnotation(annotation),
                           shortLabelFromAnnotation(annotation)>>]

\* The content sequence with each node put before those already there.
toDicomContentSequenceReversed(list) ==
  [i \in 1..Len(list) |-> scoordFromAnnotation(list[Len(list) + 1 - i])]

\* The content sequence of toDicom: one scoord node per annotation, in order.
toDicomContentSequence(list) ==
  [i \in 1..Len(list) |-> scoordFromAnnotation(list[i])]

\* The root container written whatever the length of the content sequence.
toDicomContentTagsAlways(generated, contentSequence) ==
  Spread(generated,
         getDicomSRContentItem(
           [DicomSRContent(ValueTypes.container) EXCEPT
              !.conceptNameCode = Some(getMeasurementGroupCode),
              !.contentSequence = contentSequence]))

\* The tags with those of the root container, when there is content.
toDicomContentTags(generated, contentSequence) ==
  IF Len(contentSequence) # 0
  THEN LET srContent == [DicomSRContent(ValueTypes.container) EXCEPT
                           !.conceptNameCode = Some(getMeasurementGroupCode),
                           !.contentSequence = contentSequence]
       IN Spread(generated, getDicomSRContentItem(srContent))
  ELSE generated

\* The fixed tags over a copy of every metadata entry of the group.
toDicomFixedTagsAllMeta(group, now) ==
  Spread(group.meta,
    [TransferSyntaxUID |-> Some("1.2.840.10008.1.2.1"),
     SOPClassUID |-> Some("1.2.840.10008.5.1.4.1.1.88.11"),
     SOPInstanceUID |-> Some("1.2.840.10008.5.1.4.1.1.88.11.0"),
     MediaStorageSOPClassUID |-> Some("1.2.840.10008.5.1.4.1.1.88.11"),
     MediaStorageSOPInstanceUID |-> Some("1.2.840.10008.5.1.4.1.1.88.11.0"),
     Modality |-> getMeta(group, "Modality"),
     StudyInstanceUID |-> getMeta(group, "StudyInstanceUID"),
     ReferencedSeriesSequence |-> getMeta(group, "ReferencedSeriesSequence"),
     SeriesInstanceUID |-> Some("1.2.3.4.5.6"),
     CompletionFlag |-> Some("PARTIAL"),
     VerificationFlag |-> Some("UNVERIFIED"),
     ContentDate |-> Some(getDicomDate(dateToDateObj(now))),
     ContentTime |-> Some(getDicomTime(dateToTimeObj(now)))])

\* The fixed tags and the metadata copied from the group.
toDicomFixedTags(group, now) ==
  [TransferSyntaxUID |-> Some("1.2.840.10008.1.2.1"),
   SOPClassUID |-> Some("1.2.840.10008.5.1.4.1.1.88.11"),
   SOPInstanceUID |-> Some("1.2.840.10008.5.1.4.1.1.88.11.0"),
   MediaStorageSOPClassUID |-> Some("1.2.840.10008.5.1.4.1.1.88.11"),
   MediaStorageSOPInstanceUID |-> Some("1.2.840.10008.5.1.4.1.1.88.11.0"),
   Modality |-> getMeta(group, "Modality"),
   StudyInstanceUID |-> getMeta(group, "StudyInstanceUID"),
   ReferencedSeriesSequence |-> getMeta(group, "ReferencedSeriesSequence"),
   SeriesInstanceUID |-> Some("1.2.3.4.5.6"),
   CompletionFlag |-> Some("PARTIAL"),
   VerificationFlag |-> Some("UNVERIFIED"),
   ContentDate |-> Some(getDicomDate(dateToDateObj(now))),
   ContentTime |-> Some(getDicomTime(dateToTimeObj(now)))]

\* The tags toDicom generates before merging the extra tags.
toDicomTags(group, now) ==
  toDicomContentTags(toDicomFixedTags(group, now),
                     toDicomContentSequence(getList(group)))

\* toDicom: the final tags, the trace entries and the returned elements.
toDicom(group, extra, now) ==
  LET generated == toDicomTags(group, now)
      merged == IF IsDefined(extra)
                THEN mergeTags(generated, extra[1])
                ELSE [tags |-> generated, trace |-> <<>>]
  IN [tags |-> merged.tags, trace |-> merged.trace,
      return |-> getElementsFromJSONTags(merged.tags)]

\* ------------------------------------------------------------ inputs
\* Imported SR trees. A root child is a scoord item with some children, each
\* an image/selectedFrom, a uidref/hasProperties or a text/hasProperties
\* item, or it is a text/contains item. The payload of a node names its
\* position, so that no two nodes of a tree carry the same value.
SubItemKinds == {ValueTypes.image, ValueTypes.uidref, ValueTypes.text}

ItemsOfSize(n) ==
  {[valueType |-> ValueTypes.scoord, subItems |-> s] :
     s \in [1..(n - 1) -> SubItemKinds]}
  \cup (IF n = 1
        THEN {[valueType |-> ValueTypes.text, subItems |-> <<>>]}
        ELSE {})

\* The sequences of root children with n nodes in all.
RECURSIVE OutlinesOfSize(_)
OutlinesOfSize(n) ==
  IF n = 0
  THEN {<<>>}
  ELSE UNION {{<<item>> \o rest :
                 item \in ItemsOfSize(k), rest \in OutlinesOfSize(n - k)} :
              k \in 1..n}

Outlines == UNION {OutlinesOfSize(n) : n \in 0..MaxNodes}

Position(i, j) == ToString(i) \o "." \o ToString(j)

InputSubItem(kind, i, j) ==
  IF kind = ValueTypes.image
  THEN [DicomSRContent(ValueTypes.image) EXCEPT
          !.relationshipType = Some(RelationshipTypes.selectedFrom),
          !.conceptNameCode = Some(getSourceImageCode),
          !.value = Some([referencedSOPSequence |->
                       Some([referencedSOPClassUID |-> Some(""),
                             referencedSOPInstanceUID |->
                               Some("1.2.840." \o Position(i, j))])])]
  ELSE IF kind = ValueTypes.uidref
  THEN [DicomSRContent(ValueTypes.uidref) EXCEPT
          !.relationshipType = Some(RelationshipTypes.hasProperties),
          !.conceptNameCode = Some(getTrackingIdentifierCode),
          !.value = Some("id-" \o Position(i, j))]
  ELSE [DicomSRContent(ValueTypes.text) EXCEPT
          !.relationshipType = Some(RelationshipTypes.hasProperties),
          !.conceptNameCode = Some(getShortLabelCode),
          !.value = Some("label-" \o Position(i, j))]

InputShape(i) ==
  IF i % 2 = 1 THEN Point2D(1, 2) ELSE Circle(Point2D(1, 1), 2)

InputItem(item, i) ==
  IF item.valueType = ValueTypes.scoord
  THEN [DicomSRContent(ValueTypes.scoord) EXCEPT
          !.relationshipType = Some(RelationshipTypes.contains),
          !.conceptNameCode = Some(getImageRegionCode),
          !.value = Some(getScoordFromShape(InputShape(i))),
          !.contentSequence =
             [j \in 1..Len(item.subItems) |-> InputSubItem(item.subItems[j], i, j)]]
  ELSE [DicomSRContent(ValueTypes.text) EXCEPT
          !.relationshipType = Some(RelationshipTypes.contains),
          !.value = Some("note-" \o ToString(i))]

\* The root: a container whose concept name code is absent, the measurement
\* group code or another code.
RootCodes == {Undefined, Some(getMeasurementGroupCode), Some(getImageRegionCode)}

InputRoot(code, outline) ==
  [DicomSRContent(ValueTypes.container) EXCEPT
     !.conceptNameCode = code,
     !.contentSequence = [i \in 1..Len(outline) |-> InputItem(outline[i], i)]]

\* The elements beside the tree: Modality, StudyInstanceUID and the
\* referenced series, each present or not.
SeriesItems ==
  {Undefined,
   Some([value |-> <<[ReferencedSOPClassUID |-> Some("1.2.840.10008.5.1.4.1.1.4")]>>]),
   Some([value |-> <<[SeriesInstanceUID |-> Some("1.2.840.7")]>>])}

Headers ==
  {[Modality |-> m, StudyInstanceUID |-> s, ReferencedSeriesSequence |-> r] :
     m \in {Undefined, Some("MR")}, s \in {Undefined, Some("1.2.840.5")},
     r \in SeriesItems}

CompleteHeader ==
  [Modality |-> Some("MR"), StudyInstanceUID |-> Some("1.2.840.5"),
   ReferencedSeriesSequence |->
     Some([value |-> <<[SeriesInstanceUID |-> Some("1.2.840.7")]>>])]

\* An input element mapping, as the parser yields it for a file with this
\* header and this tree.
InputElements(header, code, outline) ==
  getElementsFromJSONTags(
    Spread(header, getDicomSRContentItem(InputRoot(code, outline))))

\* The inputs of checkElements and create: every header, root code and tree.
Inputs ==
  {InputElements(header, code, outline) :
     header \in Headers, code \in RootCodes, outline \in Outlines}

\* Imported SR trees of any depth: every node is of one of these value type
\* and relationship type pairs, three of which are the pairs create looks
\* for and three of which have the value type of one rule with the
\* relationship type of another; any node may have children.
NodeKinds ==
  {[valueType |-> ValueTypes.scoord, relationshipType |-> RelationshipTypes.contains],
   [valueType |-> ValueTypes.image, relationshipType |-> RelationshipTypes.selectedFrom],
   [valueType |-> ValueTypes.image, relationshipType |-> RelationshipTypes.hasProperties],
   [valueType |-> ValueTypes.uidref, relationshipType |-> RelationshipTypes.hasProperties],
   [valueType |-> ValueTypes.uidref, relationshipType |-> RelationshipTypes.selectedFrom],
   [valueType |-> ValueTypes.text, relationshipType |-> RelationshipTypes.hasProperties],
   [valueType |-> ValueTypes.text, relationshipType |-> RelationshipTypes.contains]}

\* The sequences of trees with n nodes in all.
RECURSIVE ForestsOfSize(_)
ForestsOfSize(n) ==
  IF n = 0
  THEN {<<>>}
  ELSE UNION {{<<[kind |-> kind, children |-> children]>> \o rest :
                 kind \in NodeKinds, children \in ForestsOfSize(k - 1),
                 rest \in ForestsOfSize(n - k)} :
              k \in 1..n}

ForestsUpTo(n) == UNION {ForestsOfSize(k) : k \in 0..n}

\* The node at a path ("2.1" is the first child of the root's second
\* child), with a payload that names the path.
RECURSIVE DeepItem(_, _)
DeepItem(node, path) ==
  LET valueType == node.kind.valueType
      value ==
        CASE valueType = ValueTypes.scoord ->
               Some(getScoordFromShape(InputShape(Len(node.children) + 1)))
          [] valueType = ValueTypes.image ->
               Some([referencedSOPSequence |->
                       Some([referencedSOPClassUID |-> Some(""),
                             referencedSOPInstanceUID |-> Some("1.2.840." \o path)])])
          [] valueType = ValueTypes.uidref -> Some("id-" \o path)
          [] OTHER -> Some("label-" \o path)
  IN [DicomSRContent(valueType) EXCEPT
        !.relationshipType = Some(node.kind.relationshipType),
        !.value = value,
        !.contentSequence =
           [j \in 1..Len(node.children) |->
              DeepItem(node.children[j], path \o "." \o ToString(j))]]

DeepRoot(forest) ==
  [DicomSRContent(ValueTypes.container) EXCEPT
     !.conceptNameCode = Some(getMeasurementGroupCode),
     !.contentSequence = [i \in 1..Len(forest) |-> DeepItem(forest[i], ToString(i))]]

\* The element mappings of the trees of at most n nodes below the root.
DeepInputs(n) ==
  {getElementsFromJSONTags(
     Spread(CompleteHeader, getDicomSRContentItem(DeepRoot(forest)))) :
   forest \in ForestsUpTo(n)}

\* Exported groups: lists of annotations from a pool, under metadata with
\* each of Modality, StudyInstanceUID, ReferencedSeriesSequence and a key
\* the factory does not know (PatientName) present or not.
AnnotationPool ==
  {[id |-> Some("a"), mathShape |-> Some(Point2D(1, 2)),
    textExpr |-> Some(""), referenceSopUID |-> Some("1.2.840.1")],
   [id |-> Some("b"), mathShape |-> Some(Circle(Point2D(2, 1), 2)),
    textExpr |-> Some("lesion"), referenceSopUID |-> Some("1.2.840.2")],
   [id |-> Some("c"), mathShape |-> Some(Point2D(0, 3)),
    textExpr |-> Some("lesion"), referenceSopUID |-> Some("1.2.840.1")]}

AnnotationLists == UNION {[1..n -> AnnotationPool] : n \in 0..MaxAnnotations}

MetaValues ==
  [Modality |-> Some("MR"), StudyInstanceUID |-> Some("1.2.840.5"),
   ReferencedSeriesSequence |->
     Some([value |-> <<[SeriesInstanceUID |-> Some("1.2.840.7")]>>]),
   PatientName |-> Some("Doe^John")]

MetaKeys == {"Modality", "StudyInstanceUID", "ReferencedSeriesSequence"}

Metas ==
  {[k \in keys |-> MetaValues[k]] :
     keys \in {MetaKeys, MetaKeys \cup {"PatientName"}, {},
               MetaKeys \ {"Modality"}, MetaKeys \ {"StudyInstanceUID"},
               MetaKeys \ {"ReferencedSeriesSequence"}}}

Groups ==
  {[AnnotationGroup(list) EXCEPT !.meta = meta] :
     list \in AnnotationLists, meta \in Metas}

\* extraTags: absent, or an object given by its entries in key order.
ExtraEntries ==
  {[name |-> "Modality", value |-> Some("CT")],
   [name |-> "PatientName", value |-> Some("Roe^Jane")]}

ExtraTags ==
  {Undefined}
  \cup {Some(e) : e \in {<<>>} \cup {<<x>> : x \in ExtraEntries}
                        \cup {p \in ExtraEntries \X ExtraEntries :
                                p[1].name # p[2].name}}

\* new Date(): the instants toDicom may run at.
Instants ==
  {[fullYear |-> 2024, month |-> 0, date |-> 9,
    hours |-> 8, minutes |-> 5, seconds |-> 30],
   [fullYear |-> 2025, month |-> 11, date |-> 31,
    hours |-> 23, minutes |-> 59, seconds |-> 7]}

\* ------------------------------------------------------------ behaviour
\* new AnnotationFactory()
Init ==
  /\ warning = Undefined
  /\ guidCount = 0
  /\ op = "new"
  /\ dataElements = Undefined
  /\ annotationGroup = Undefined
  /\ extraTags = Undefined
  /\ tags = <<>>
  /\ trace = <<>>
  /\ result = Undefined
  /\ warningBefore = Undefined
  /\ lastChecked = Undefined

\* factory.checkElements(elements)
CheckElements(elements) ==
  /\ warning' = checkElementsWarning(warning, elements)
  /\ result' = warning'
  /\ lastChecked' = warning'
  /\ warningBefore' = warning
  /\ op' = "checkElements"
  /\ dataElements' = Some(elements)
  /\ annotationGroup' = Undefined
  /\ extraTags' = Undefined
  /\ tags' = <<>>
  /\ trace' = <<>>
  /\ UNCHANGED guidCount

\* factory.getWarning()
GetWarning ==
  /\ result' = warning
  /\ op' = "getWarning"
  /\ dataElements' = Undefined
  /\ annotationGroup' = Undefined
  /\ extraTags' = Undefined
  /\ tags' = <<>>
  /\ trace' = <<>>
  /\ warningBefore' = warning
  /\ UNCHANGED <<warning, guidCount, lastChecked>>

\* factory.create(elements)
Create(elements) ==
  LET call == create(elements, guidCount)
  IN /\ call.guids <= MaxGuid
     /\ result' = call.return
     /\ guidCount' = call.guids
     /\ op' = "create"
     /\ dataElements' = Some(elements)
     /\ annotationGroup' = Undefined
     /\ extraTags' = Undefined
     /\ tags' = <<>>
     /\ trace' = <<>>
     /\ warningBefore' = warning
     /\ UNCHANGED <<warning, lastChecked>>

\* factory.create(e) on the elements e the toDicom call before it returned;
\* the arguments of that call stay on record.
CreateExported ==
  /\ op = "toDicom"
  /\ LET call == create(result, guidCount)
     IN /\ call.guids <= MaxGuid
        /\ result' = call.return
        /\ guidCount' = call.guids
        /\ op' = "create"
        /\ dataElements' = Some(result)
        /\ warningBefore' = warning
        /\ UNCHANGED <<warning, lastChecked, annotationGroup, extraTags, tags,
                       trace>>

\* factory.toDicom(group, extra) at the instant now
ToDicom(group, extra, now) ==
  LET call == toDicom(group, extra, now)
  IN /\ result' = call.return
     /\ tags' = call.tags
     /\ trace' = call.trace
     /\ op' = "toDicom"
     /\ annotationGroup' = Some(group)
     /\ extraTags' = Some(extra)
     /\ dataElements' = Undefined
     /\ warningBefore' = warning
     /\ UNCHANGED <<warning, guidCount, lastChecked>>

\* The calls of a factory's life, in any order, over a few inputs: a tree
\* of one scoord item under each root code and a header that is complete,
\* lacks Modality or lacks StudyInstanceUID; a group of no or one annotation,
\* with or without an extra Modality tag.
LifecycleInputs ==
  {InputElements(header, code,
                 <<[valueType |-> ValueTypes.scoord, subItems |-> <<>>]>>) :
     header \in {CompleteHeader,
                 [CompleteHeader EXCEPT !.Modality = Undefined],
                 [CompleteHeader EXCEPT !.StudyInstanceUID = Undefined]},
     code \in RootCodes}

LifecycleGroups ==
  {group \in Groups :
     Len(group.list) <= 1 /\ DOMAIN group.meta = MetaKeys \cup {"PatientName"}}

LifecycleExtraTags ==
  {Undefined, Some(<<[name |-> "Modality", value |-> Some("CT")]>>)}

CheckElementsStep == \E elements \in LifecycleInputs : CheckElements(elements)
CreateStep == \E elements \in LifecycleInputs : Create(elements)
ToDicomStep ==
  \E group \in LifecycleGroups, extra \in LifecycleExtraTags, now \in Instants :
    ToDicom(group, extra, now)

Next ==
  \/ CheckElementsStep
  \/ GetWarning
  \/ CreateStep
  \/ CreateExported
  \/ ToDicomStep

Spec == Init /\ [][Next]_vars

\* Import: a new factory checks or creates from any input, creates from the
\* input it checked, and creates again from the input it created from.
ImportCheck == op = "new" /\ \E elements \in Inputs : CheckElements(elements)
ImportCreate == op = "new" /\ \E elements \in Inputs : Create(elements)
ImportCreateChecked == op = "checkElements" /\ Create(dataElements[1])
ImportCreateAgain ==
  op = "create" /\ IsDefined(dataElements) /\ Create(dataElements[1])

NextImport ==
  \/ ImportCheck
  \/ ImportCreate
  \/ ImportCreateChecked
  \/ ImportCreateAgain

SpecImport == Init /\ [][NextImport]_vars

\* Import of trees of any depth: a new factory checks or creates from any
\* such input, then creates from the input it checked.
DeepCheck ==
  op = "new" /\ \E elements \in DeepInputs(MaxDeepNodes) : CheckElements(elements)
DeepCreate ==
  op = "new" /\ \E elements \in DeepInputs(MaxDeepNodes) : Create(elements)
DeepCreateChecked == op = "checkElements" /\ Create(dataElements[1])

NextDeep ==
  \/ DeepCheck
  \/ DeepCreate
  \/ DeepCreateChecked

SpecDeep == Init /\ [][NextDeep]_vars

\* Import under every form of the referenced series element: absent, with no
\* item, or with one or two items of which each has SeriesInstanceUID
\* (0020000E) or another sub-element; with Modality and StudyInstanceUID
\* present or not, each root code, and the trees of at most two nodes.
SeriesSequences ==
  LET with == [SeriesInstanceUID |-> Some("1.2.840.7")]
      other == [SeriesInstanceUID |-> Some("1.2.840.8")]
      without == [ReferencedSOPClassUID |-> Some("1.2.840.10008.5.1.4.1.1.4")]
  IN {Undefined} \cup
     {Some([value |-> items]) :
        items \in {<<>>, <<with>>, <<without>>, <<with, other>>,
                   <<with, without>>, <<without, with>>}}

SeriesHeaders ==
  {[Modality |-> m, StudyInstanceUID |-> s, ReferencedSeriesSequence |-> r] :
     m \in {Undefined, Some("MR")}, s \in {Undefined, Some("1.2.840.5")},
     r \in SeriesSequences}

SeriesInputs ==
  {InputElements(header, code, outline) :
     header \in SeriesHeaders, code \in RootCodes,
     outline \in OutlinesOfSize(0) \cup OutlinesOfSize(1) \cup OutlinesOfSize(2)}

SeriesCheck == op = "new" /\ \E elements \in SeriesInputs : CheckElements(elements)
SeriesCreate == op = "new" /\ \E elements \in SeriesInputs : Create(elements)
SeriesCreateChecked == op = "checkElements" /\ Create(dataElements[1])

NextSeries ==
  \/ SeriesCheck
  \/ SeriesCreate
  \/ SeriesCreateChecked

SpecSeries == Init /\ [][NextSeries]_vars

\* Export: a new factory converts any group, then creates from what it
\* returned.
ExportToDicom ==
  op = "new" /\ \E group \in Groups, extra \in ExtraTags, now \in Instants :
                  ToDicom(group, extra, now)

NextExport ==
  \/ ExportToDicom
  \/ CreateExported

SpecExport == Init /\ [][NextExport]_vars

\* Import and export together.
NextTranslate ==
  \/ NextImport
  \/ NextExport

SpecTranslate == Init /\ [][NextTranslate]_vars

\* ------------------------------------------------------------ properties
\* The root concept name code of an element mapping, read off the elements:
\* whether element 0040A043 is there, and the code value of its item.
HasRootCode(elements) == "0040A043" \in DOMAIN elements
RootCodeValue(elements) == elements["0040A043"].value[1]["00080100"].value[1]
IsMeasurementGroup(elements) ==
  HasRootCode(elements) /\ RootCodeValue(elements) = "125007"

C2_WarningIsLastCheck ==
  /\ warning = lastChecked
  /\ op = "getWarning" => result = lastChecked
  /\ op = "checkElements" =>
       /\ result = lastChecked
       /\ IsMeasurementGroup(dataElements[1]) => warning = Undefined
  /\ op \in {"create", "toDicom", "getWarning"} => warning = warningBefore

\* A measurement group was checked by a factory that held a warning.
C2_Witness ==
  /\ op = "checkElements"
  /\ IsDefined(warningBefore)
  /\ IsMeasurementGroup(dataElements[1])
  /\ warning = Undefined

\* The group a create call took its elements from: the argument of the
\* toDicom call whose result it read, made without extra tags.
IsRoundTrip ==
  /\ op = "create"
  /\ IsDefined(annotationGroup)
  /\ ~IsDefined(extraTags[1])

IsComplete(group) == MetaKeys \subseteq DOMAIN group.meta

\* C3: create(toDicom(G)), for G with annotations and with Modality,
\* StudyInstanceUID and ReferencedSeriesSequence, returns a group with as many
\* annotations, the i-th with the mathShape, id, textExpr and referenceSopUID
\* of G's i-th, and with G's values of the three metadata keys.
C3_RoundTrip ==
  IsRoundTrip /\ Len(annotationGroup[1].list) > 0
              /\ IsComplete(annotationGroup[1]) =>
    LET G == annotationGroup[1]
    IN /\ result.status = "ok"
       /\ Len(result.group.list) = Len(G.list)
       /\ \A i \in 1..Len(G.list) :
            /\ result.group.list[i].mathShape = G.list[i].mathShape
            /\ result.group.list[i].id = G.list[i].id
            /\ result.group.list[i].textExpr = G.list[i].textExpr
            /\ result.group.list[i].referenceSopUID = G.list[i].referenceSopUID
       /\ \A key \in MetaKeys :
            /\ key \in DOMAIN result.group.meta
            /\ result.group.meta[key] = G.meta[key]

\* A complete group of two annotations of different shapes came back.
C3_Witness ==
  /\ IsRoundTrip
  /\ IsComplete(annotationGroup[1])
  /\ Len(annotationGroup[1].list) = 2
  /\ annotationGroup[1].list[1].mathShape[1].type = "Point2D"
  /\ annotationGroup[1].list[2].mathShape[1].type = "Circle"
  /\ result.status = "ok"
  /\ Len(result.group.list) = 2

\* The root's children in an element mapping, those of value type SCOORD, and
\* the values of an item's UIDREF children with relationship HAS PROPERTIES.
ContentItems(elements) ==
  IF "0040A730" \in DOMAIN elements THEN elements["0040A730"].value ELSE <<>>
IsScoordItem(item) == item["0040A040"].value = <<"SCOORD">>
ScoordItems(elements) == SelectSeq(ContentItems(elements), IsScoordItem)
UidValues(item) ==
  {ContentItems(item)[j]["0040A124"].value[1] :
     j \in {j \in 1..Len(ContentItems(item)) :
              /\ ContentItems(item)[j]["0040A040"].value = <<"UIDREF">>
              /\ ContentItems(item)[j]["0040A010"].value = <<"HAS PROPERTIES">>}}
Ids(list) == [i \in 1..Len(list) |-> list[i].id]

\* C4: toDicom puts under the root container one SCOORD item per annotation,
\* in list order; create returns one annotation per SCOORD child of the root,
\* in content sequence order, passing over children of other types; so
\* create(toDicom(G)) lists the ids in G's order.
C4_OrderPreserved ==
  /\ op = "toDicom" =>
       LET list == annotationGroup[1].list
           items == ContentItems(result)
       IN /\ Len(items) = Len(list)
          /\ Len(list) > 0 => result["0040A040"].value = <<"CONTAINER">>
          /\ \A i \in 1..Len(list) :
               /\ IsScoordItem(items[i])
               /\ items[i]["0040A010"].value = <<"CONTAINS">>
               /\ UidValues(items[i]) = {list[i].id[1]}
  /\ op = "create" /\ result.status = "ok" =>
       LET items == ScoordItems(dataElements[1])
           list == result.group.list
       IN /\ Len(list) = Len(items)
          /\ \A k \in 1..Len(items) :
               /\ list[k].mathShape =
                    Some(getShapeFromScoord(getSpatialCoordinate(items[k])))
               /\ UidValues(items[k]) # {} => list[k].id[1] \in UidValues(items[k])
  /\ IsRoundTrip /\ result.status = "ok" =>
       Ids(result.group.list) = Ids(annotationGroup[1].list)

\* The group [a, b, c] was exported and created again.
C4_Witness ==
  /\ IsRoundTrip
  /\ Ids(annotationGroup[1].list) = <<Some("a"), Some("b"), Some("c")>>
  /\ result.status = "ok"
  /\ Ids(result.group.list) = <<Some("a"), Some("b"), Some("c")>>

\* C5: toDicom of a group with no annotation, without extra tags, yields no
\* tag of the SR content tree and yet every fixed tag and the values of
\* Modality, StudyInstanceUID and ReferencedSeriesSequence of the group's
\* metadata; with an annotation the root container with the measurement
\* group code is there.
C5_EmptyGroup ==
  op = "toDicom" =>
    LET G == annotationGroup[1]
    IN /\ Len(G.list) = 0 /\ ~IsDefined(extraTags[1]) =>
            /\ DOMAIN tags \cap ContentTreeNames = {}
            /\ DOMAIN result \cap {"0040A040", "0040A010", "0040A043", "0040A730"} = {}
            /\ tags.TransferSyntaxUID = Some("1.2.840.10008.1.2.1")
            /\ tags.SOPClassUID = Some("1.2.840.10008.5.1.4.1.1.88.11")
            /\ tags.SOPInstanceUID = Some("1.2.840.10008.5.1.4.1.1.88.11.0")
            /\ tags.MediaStorageSOPClassUID = Some("1.2.840.10008.5.1.4.1.1.88.11")
            /\ tags.MediaStorageSOPInstanceUID =
                 Some("1.2.840.10008.5.1.4.1.1.88.11.0")
            /\ tags.SeriesInstanceUID = Some("1.2.3.4.5.6")
            /\ tags.CompletionFlag = Some("PARTIAL")
            /\ tags.VerificationFlag = Some("UNVERIFIED")
            /\ tags.ContentDate \in {Some("20240109"), Some("20251231")}
            /\ tags.ContentTime \in {Some("080530"), Some("235907")}
            /\ \A key \in MetaKeys :
                 tags[key] = IF key \in DOMAIN G.meta THEN G.meta[key] ELSE Undefined
            /\ result["00080016"].value = <<"1.2.840.10008.5.1.4.1.1.88.11">>
            /\ result["0040A491"].value = <<"PARTIAL">>
            /\ "Modality" \in DOMAIN G.meta => result["00080060"].value = G.meta.Modality
       /\ Len(G.list) > 0 =>
            /\ tags.ValueType = Some("CONTAINER")
            /\ tags.ConceptNameCodeSequence[1].value[1].CodeValue = Some("125007")
            /\ Len(tags.ContentSequence[1].value) > 0
            /\ result["0040A043"].value[1]["00080100"].value = <<"125007">>

\* A group with metadata and no annotation was converted without extra tags.
C5_Witness ==
  /\ op = "toDicom"
  /\ Len(annotationGroup[1].list) = 0
  /\ ~IsDefined(extraTags[1])
  /\ IsComplete(annotationGroup[1])
  /\ "00080060" \in DOMAIN result

\* The names toDicom gives a value to before the merge, and those whose
\* value is not undefined, read off the group.
GeneratedNames(group) ==
  {"TransferSyntaxUID", "SOPClassUID", "SOPInstanceUID",
   "MediaStorageSOPClassUID", "MediaStorageSOPInstanceUID", "Modality",
   "StudyInstanceUID", "ReferencedSeriesSequence", "SeriesInstanceUID",
   "CompletionFlag", "VerificationFlag", "ContentDate", "ContentTime"}
  \cup (IF Len(group.list) > 0
        THEN {"ValueType", "ConceptNameCodeSequence", "ContentSequence"}
        ELSE {})
GeneratedDefined(group) ==
  {name \in GeneratedNames(group) :
     name \in MetaKeys =>
       name \in DOMAIN group.meta /\ IsDefined(group.meta[name])}
TraceCount(name) ==
  Cardinality({i \in 1..Len(trace) : trace[i] = "Overwritting tag: " \o name})

\* C6 as stated: every key of extraTags is in the final tag set with the
\* extraTags value, with one trace entry for each key that the generated tag
\* set has too and none for the other keys.
C6_Original ==
  op = "toDicom" /\ IsDefined(extraTags[1]) =>
    LET extra == extraTags[1][1]
    IN \A i \in 1..Len(extra) :
         /\ extra[i].name \in DOMAIN tags
         /\ tags[extra[i].name] = extra[i].value
         /\ TraceCount(extra[i].name) =
              IF extra[i].name \in GeneratedNames(annotationGroup[1]) THEN 1 ELSE 0

\* C6, amended: every key of extraTags is in the final tag set with the
\* extraTags value; there is one trace entry for each key of extraTags whose
\* generated value is not undefined, none for a key generated as undefined
\* or not generated, and no other entry. With Modality 'MR' in the group and
\* {Modality: 'CT'} as extra tags, Modality is 'CT' with one entry for it.
C6_TagOverride ==
  op = "toDicom" /\ IsDefined(extraTags[1]) =>
    LET extra == extraTags[1][1]
        G == annotationGroup[1]
    IN /\ \A i \in 1..Len(extra) :
            /\ extra[i].name \in DOMAIN tags
            /\ tags[extra[i].name] = extra[i].value
            /\ TraceCount(extra[i].name) =
                 IF extra[i].name \in GeneratedDefined(G) THEN 1 ELSE 0
       /\ Len(trace) =
            Cardinality({i \in 1..Len(extra) : extra[i].name \in GeneratedDefined(G)})
       /\ /\ getMeta(G, "Modality") = Some("MR")
          /\ extra = <<[name |-> "Modality", value |-> Some("CT")]>>
          => /\ tags.Modality = Some("CT")
             /\ result["00080060"].value = <<"CT">>
             /\ trace = <<"Overwritting tag: Modality">>

\* A group with Modality 'MR' was converted with {Modality: 'CT'}.
C6_Witness ==
  /\ op = "toDicom"
  /\ getMeta(annotationGroup[1], "Modality") = Some("MR")
  /\ extraTags = Some(Some(<<[name |-> "Modality", value |-> Some("CT")]>>))
  /\ tags.Modality = Some("CT")
  /\ Len(trace) = 1

\* C7: create on elements lacking Modality (00080060) or StudyInstanceUID
\* (0020000D) raises and returns no group, whatever the tree, and the stored
\* warning is as before the call; a group it returns has both values.
C7_CreateRaises ==
  op = "create" =>
    /\ "00080060" \notin DOMAIN dataElements[1]
       \/ "0020000D" \notin DOMAIN dataElements[1] =>
         /\ result.status = "error"
         /\ "group" \notin DOMAIN result
         /\ warning = warningBefore
    /\ result.status = "ok" =>
         /\ IsDefined(getMeta(result.group, "Modality"))
         /\ IsDefined(getMeta(result.group, "StudyInstanceUID"))

\* create raised for a tree with items and no Modality, in a factory that
\* holds a warning.
C7_Witness ==
  /\ op = "create"
  /\ "00080060" \notin DOMAIN dataElements[1]
  /\ "0020000D" \in DOMAIN dataElements[1]
  /\ Len(ScoordItems(dataElements[1])) > 0
  /\ IsDefined(warning)
  /\ result.status = "error"

\* The positions, among the SCOORD children, of those with no UIDREF child of
\* relationship HAS PROPERTIES.
Defaulted(elements) ==
  {k \in 1..Len(ScoordItems(elements)) : UidValues(ScoordItems(elements)[k]) = {}}

\* C8: an annotation made from a SCOORD node with no UIDREF child of
\* relationship HAS PROPERTIES has the id of a guid() call made in that create
\* call: not empty, not the id of another annotation of the import, and not
\* an id that the create call before it, on the same input, gave; with such
\* a child the id is a value of such a child and no generated one.
C8_IdDefault ==
  [][op' = "create" /\ result'.status = "ok" =>
       LET items == ScoordItems(dataElements'[1])
           list == result'.group.list
           fresh == {guid(n) : n \in (guidCount + 1)..guidCount'}
       IN /\ \A k \in Defaulted(dataElements'[1]) :
               /\ IsDefined(list[k].id)
               /\ list[k].id[1] # ""
               /\ list[k].id[1] \in fresh
               /\ \A l \in 1..Len(list) : l # k => list[l].id # list[k].id
          /\ \A k \in (1..Len(items)) \ Defaulted(dataElements'[1]) :
               /\ list[k].id[1] \in UidValues(items[k])
               /\ list[k].id[1] \notin fresh
          /\ op = "create" /\ result.status = "ok"
               /\ dataElements = dataElements' =>
               \A k \in Defaulted(dataElements'[1]) :
                 \A l \in 1..Len(result.group.list) :
                   result.group.list[l].id # list[k].id
  ]_vars

\* The second create call on elements with two SCOORD nodes without an id.
C8_Witness ==
  /\ op = "create"
  /\ result.status = "ok"
  /\ Defaulted(dataElements[1]) = {1, 2}
  /\ Ids(result.group.list) = <<Some(guid(3)), Some(guid(4))>>

\* C9 as stated: a metadata key the factory does not know (PatientName) is
\* in the group create(toDicom(G)) returns, with G's value.
C9_Original ==
  IsRoundTrip /\ result.status = "ok"
              /\ "PatientName" \in DOMAIN annotationGroup[1].meta =>
    /\ "PatientName" \in DOMAIN result.group.meta
    /\ result.group.meta.PatientName = annotationGroup[1].meta.PatientName

\* C9, amended: a metadata key the factory does not know is not carried
\* over: toDicom(G) holds no tag and no element for it, and the metadata of
\* the group create(toDicom(G)) returns has no key beside Modality,
\* StudyInstanceUID and ReferencedSeriesSequence.
C9_NoPassThrough ==
  /\ op = "toDicom" /\ ~IsDefined(extraTags[1]) =>
       /\ "PatientName" \notin DOMAIN tags
       /\ "00100010" \notin DOMAIN result
  /\ IsRoundTrip /\ result.status = "ok" =>
       /\ DOMAIN result.group.meta \subseteq MetaKeys
       /\ "PatientName" \notin DOMAIN result.group.meta

\* A group with PatientName in its metadata was exported and created again.
C9_Witness ==
  /\ IsRoundTrip
  /\ result.status = "ok"
  /\ "PatientName" \in DOMAIN annotationGroup[1].meta
  /\ Len(result.group.list) > 0

\* The positions of an item's children of a value type and relationship, and
\* the last of them.
Matching(item, valueType, relationshipType) ==
  {j \in 1..Len(ContentItems(item)) :
     /\ ContentItems(item)[j]["0040A040"].value = <<valueType>>
     /\ ContentItems(item)[j]["0040A010"].value = <<relationshipType>>}
Last(S) == CHOOSE j \in S : \A i \in S : i <= j

\* C10: of several children of a SCOORD node matching one rule the last, in
\* content sequence order, gives the field, for referenceSopUID, id and
\* textExpr each on its own; the field holds that one value, and the node
\* gives one annotation.
C10_LastWins ==
  op = "create" /\ result.status = "ok" =>
    LET items == ScoordItems(dataElements[1])
        list == result.group.list
    IN /\ Len(list) = Len(items)
       /\ \A k \in 1..Len(items) :
            LET children == ContentItems(items[k])
                images == Matching(items[k], "IMAGE", "SELECTED FROM")
                uids == Matching(items[k], "UIDREF", "HAS PROPERTIES")
                texts == Matching(items[k], "TEXT", "HAS PROPERTIES")
            IN /\ images # {} =>
                    list[k].referenceSopUID =
                      children[Last(images)]["00081199"].value[1]["00081155"].value
               /\ uids # {} =>
                    list[k].id = children[Last(uids)]["0040A124"].value
               /\ texts # {} =>
                    list[k].textExpr = children[Last(texts)]["0040A160"].value

\* A SCOORD node with two UIDREF children gave the id of the second.
C10_Witness ==
  /\ op = "create"
  /\ result.status = "ok"
  /\ Len(ScoordItems(dataElements[1])) = 1
  /\ Matching(ScoordItems(dataElements[1])[1], "UIDREF", "HAS PROPERTIES") = {1, 2}
  /\ result.group.list[1].id = Some("id-1.2")

\* Whether a node at depth two or more (a child of a root child's child, or
\* deeper) or a child of a root child that is no SCOORD node is one that
\* create would read at depth one.
IsRuleNode(item) ==
  \/ item["0040A040"].value = <<"SCOORD">>
  \/ item["0040A040"].value = <<"IMAGE">> /\ item["0040A010"].value = <<"SELECTED FROM">>
  \/ item["0040A040"].value = <<"UIDREF">> /\ item["0040A010"].value = <<"HAS PROPERTIES">>
  \/ item["0040A040"].value = <<"TEXT">> /\ item["0040A010"].value = <<"HAS PROPERTIES">>
HasDeepRuleNode(elements) ==
  \E i \in 1..Len(ContentItems(elements)) :
    LET child == ContentItems(elements)[i]
    IN \E j \in 1..Len(ContentItems(child)) :
         \/ ~IsScoordItem(child) /\ IsRuleNode(ContentItems(child)[j])
         \/ \E l \in 1..Len(ContentItems(ContentItems(child)[j])) :
              IsRuleNode(ContentItems(ContentItems(child)[j])[l])

\* C11: the annotations create returns are given by the root's direct
\* children and their direct children alone, whatever lies deeper: one
\* annotation per SCOORD child of the root, with the shape of that child,
\* and each of referenceSopUID, id and textExpr that of the last direct
\* child with the rule's value type and relationship type; with no such
\* direct child (deeper ones or ones with another relationship type do not
\* count) the id is a generated one, textExpr is empty and referenceSopUID
\* is unset.
C11_DepthOnePairMatched ==
  op = "create" /\ result.status = "ok" =>
    LET items == ScoordItems(dataElements[1])
        list == result.group.list
    IN /\ Len(list) = Len(items)
       /\ \A k \in 1..Len(items) :
            LET children == ContentItems(items[k])
                images == Matching(items[k], "IMAGE", "SELECTED FROM")
                uids == Matching(items[k], "UIDREF", "HAS PROPERTIES")
                texts == Matching(items[k], "TEXT", "HAS PROPERTIES")
            IN /\ list[k].mathShape =
                    Some(getShapeFromScoord(getSpatialCoordinate(items[k])))
               /\ list[k].referenceSopUID =
                    IF images # {}
                    THEN children[Last(images)]["00081199"].value[1]["00081155"].value
                    ELSE Undefined
               /\ IF uids # {}
                  THEN list[k].id = children[Last(uids)]["0040A124"].value
                  ELSE list[k].id \in {Some(guid(n)) : n \in 1..guidCount}
               /\ list[k].textExpr =
                    IF texts # {}
                    THEN children[Last(texts)]["0040A160"].value
                    ELSE Some("")

\* A SCOORD child of the root whose one child is a UIDREF node of
\* relationship SELECTED FROM, itself with a UIDREF child of relationship
\* HAS PROPERTIES, gave an annotation with a generated id.
C11_Witness ==
  /\ op = "create"
  /\ result.status = "ok"
  /\ Len(ContentItems(dataElements[1])) = 1
  /\ IsScoordItem(ContentItems(dataElements[1])[1])
  /\ LET children == ContentItems(ContentItems(dataElements[1])[1])
     IN /\ Len(children) = 1
        /\ children[1]["0040A040"].value = <<"UIDREF">>
        /\ children[1]["0040A010"].value = <<"SELECTED FROM">>
        /\ Len(ContentItems(children[1])) = 1
        /\ ContentItems(children[1])[1]["0040A040"].value = <<"UIDREF">>
        /\ ContentItems(children[1])[1]["0040A010"].value = <<"HAS PROPERTIES">>
  /\ HasDeepRuleNode(dataElements[1])
  /\ Len(result.group.list) = 1
  /\ result.group.list[1].id = Some(guid(1))
  /\ result.group.list[1].textExpr = Some("")
  /\ result.group.list[1].referenceSopUID = Undefined

\* Whether element 00081115 is present with a first item that has
\* sub-element 0020000E.
HasSeriesUid(elements) ==
  /\ "00081115" \in DOMAIN elements
  /\ Len(elements["00081115"].value) > 0
  /\ "0020000E" \in DOMAIN elements["00081115"].value[1]

\* C12 as stated: on elements with Modality and StudyInstanceUID, create
\* returns a group, with Modality and StudyInstanceUID set; its metadata has
\* ReferencedSeriesSequence exactly if element 00081115 is present with a
\* first item that has sub-element 0020000E, and then with the first value
\* of that sub-element as SeriesInstanceUID.
C12_Original ==
  /\ op = "create"
  /\ "00080060" \in DOMAIN dataElements[1]
  /\ "0020000D" \in DOMAIN dataElements[1]
  => /\ result.status = "ok"
     /\ getMeta(result.group, "Modality") = Some(dataElements[1]["00080060"].value[1])
     /\ getMeta(result.group, "StudyInstanceUID") =
          Some(dataElements[1]["0020000D"].value[1])
     /\ "ReferencedSeriesSequence" \in DOMAIN result.group.meta
          <=> HasSeriesUid(dataElements[1])
     /\ HasSeriesUid(dataElements[1]) =>
          getMeta(result.group, "ReferencedSeriesSequence") =
            Some([value |-> <<[SeriesInstanceUID |->
               Some(dataElements[1]["00081115"].value[1]["0020000E"].value[1])]>>])

\* C12 where element 00081115 is absent or has an item: there the statement
\* holds of create.
C12_WithItemOrAbsent ==
  /\ op = "create"
  /\ "00081115" \in DOMAIN dataElements[1] =>
       Len(dataElements[1]["00081115"].value) > 0
  => C12_Original

\* create raised on elements with Modality, StudyInstanceUID and an element
\* 00081115 of no item.
C12_EmptySequenceRaises ==
  /\ op = "create"
  /\ "00080060" \in DOMAIN dataElements[1]
  /\ "0020000D" \in DOMAIN dataElements[1]
  /\ "00081115" \in DOMAIN dataElements[1]
  /\ Len(dataElements[1]["00081115"].value) = 0
  /\ result.status = "error"

====
